---- MODULE Spec2Model ----
(***************************************************************************)
(* Model of share/gpodder/extensions/youtube-dl.py: the YouTube feed       *)
(* filter (YoutubeFeed._process_entries), the incremental sync             *)
(* (YoutubeFeed.get_new_episodes), the feed resolver                       *)
(* (gPodderYoutubeDL.refresh) and the download progress hook               *)
(* (YoutubeCustomDownload._my_hook).                                       *)
(***************************************************************************)
EXTENDS Integers, Sequences, FiniteSets, TLC

\* ------------------------------------------------------------------ bounds
MaxLen == 3        \* longest raw entry listing the backend yields
MaxId == 3         \* number of distinct video ids
MaxEpisodes == 2   \* largest max_episodes value (0 = unlimited)
MaxChain == 3      \* longest chain of backend answers during resolution
MaxEvents == 3     \* most progress events delivered to one download
MaxPairEvents == 2 \* the same, for each of two downloads side by side
MaxBytes == 1      \* largest byte count carried by a progress event

\* ------------------------------------------------------------------ values
Absent == "absent"             \* a key the dict does not have / Python None

VARIABLES
    \* YoutubeFeed
    entries,           \* the raw (lazy) entry sequence handed to _process_entries
    max_episodes,      \* self._max_episodes
    consumed,          \* number of elements pulled from the raw sequence
    filtered_entries,  \* local list of _process_entries
    seen_guids,        \* local set of _process_entries
    pc,                \* "none" | "process" | "ready" | "synced" | "failed"
    ie_entries,        \* self._ie_result['entries']
    \* last get_new_episodes call
    existing_guids,    \* its existing_guids argument
    entries_before,    \* self._ie_result['entries'] when it was called
    refresh_calls,     \* entry lists handed to refresh_entries during the call
    enrich_outcome,    \* what process_ie_result did during the call
    episodes,          \* returned episode list
    all_seen_guids,    \* returned guid set
    store_log,         \* episode_factory and save calls made during the call
    \* gPodderYoutubeDL.refresh
    backend,           \* the trees the backend answers, in request order
    ie_result,         \* current tree
    result_type,
    has_playlist,
    extract_calls,     \* extract_info requests issued so far
    channel_url,       \* channel.url, handed to refresh as channel_url
    refresh_url,       \* the url argument of refresh
    lookups,           \* get_cover / get_channel_desc calls
    rpc,               \* "none" | "fetch" | "declined" | "start" | "loop"
                       \* | "raised" | "construct"
    \* YoutubeCustomDownload
    _prev_dl_bytes,
    _reporthook,       \* TRUE when a progress callback is set
    events,            \* progress events delivered so far
    hook_calls,        \* invocations of the progress callback so far
    dpc,               \* "none" | "declined" | "idle" | "fetching" | "returned"
                       \* | "fetch_failed" | "stat_failed"
    _url,              \* self._url
    files,             \* the file system: path -> content
    \* last retrieve_resume call
    fetch_calls,       \* fetch_video calls issued during the call
    fetch_res,         \* what fetch_video returned (res)
    files_fetched,     \* the file system as fetch_video left it
    fs_ops,            \* os.remove / os.rename calls made during the call
    dl_result,         \* what retrieve_resume returned
    \* two YoutubeCustomDownload instances side by side
    downloads          \* instance -> its fields, and the events it received

feedVars == <<entries, max_episodes, consumed, filtered_entries, seen_guids, pc,
              ie_entries>>
syncVars == <<existing_guids, entries_before, refresh_calls, enrich_outcome, episodes,
              all_seen_guids, store_log>>
refreshVars == <<backend, ie_result, result_type, has_playlist, extract_calls, rpc,
                 channel_url, refresh_url, lookups>>
orchVars == <<_url, files, fetch_calls, fetch_res, files_fetched, fs_ops, dl_result>>
downloadVars == <<_prev_dl_bytes, _reporthook, events, hook_calls, dpc, orchVars,
                  downloads>>
vars == <<feedVars, syncVars, refreshVars, downloadVars>>

\* ------------------------------------------------------------------ entries
VideoIds == {ToString(i) : i \in 1..MaxId}

\* generate same guid as youtube
video_guid(video_id) == "yt:video:" \o video_id

\* An optional number of a dict: the key is there or not.
Some(n) == [has |-> TRUE, val |-> n]
None == [has |-> FALSE, val |-> 0]

\* d.get(key) or <rest>: Python takes the value if the key is there and the
\* number is not 0
Truthy(opt) == opt.has /\ opt.val # 0

\* en.get('requested_formats', []): the key is there, with a list of format
\* dicts (each by its optional 'filesize'), or not
Formats(fs) == [has |-> TRUE, val |-> fs]
NoFormats == [has |-> FALSE, val |-> <<>>]

\* the metadata keys of an entry that get_new_episodes reads
Meta(description, duration, filesize, requested_formats) ==
    [description |-> description, duration |-> duration, filesize |-> filesize,
     requested_formats |-> requested_formats]

NoMeta == Meta(Absent, None, None, NoFormats)

\* A raw listing entry as the backend describes it.
RawEntry(type, key, id) ==
    [_type |-> type, ie_key |-> key, id |-> id, meta |-> NoMeta]

EntrySet ==
    {RawEntry("url", "Youtube", id) : id \in VideoIds}
    \cup {RawEntry("url", "YoutubeChannel", "1"),    \* a linked channel
          RawEntry(Absent, "Youtube", "1"),          \* no _type at all
          RawEntry("playlist", "Youtube", "2")}      \* a nested playlist

Listings == UNION {[1..n -> EntrySet] : n \in 0..MaxLen}

\* the listing as the dict objects the generator yields; obj is the identity
\* of the object (its position in the listing), so that two entries of the
\* same video are told apart
Objects(listing) ==
    [i \in DOMAIN listing |->
        [_type |-> listing[i]._type, ie_key |-> listing[i].ie_key,
         id |-> listing[i].id, meta |-> listing[i].meta, obj |-> i]]

\* e.get('_type', 'video')
GetType(e) == IF e._type = Absent THEN "video" ELSE e._type

\* e['guid'] = guid
WithGuid(e, guid) ==
    [_type |-> e._type, ie_key |-> e.ie_key, id |-> e.id, meta |-> e.meta,
     obj |-> e.obj, guid |-> guid, enriched |-> FALSE]

\* ------------------------------------------------- _process_entries helpers
IsYoutubeVideo(e) == GetType(e) = "url" /\ e.ie_key = "Youtube"

AlreadySeenNever(guid, seen) == FALSE
AlreadySeen(guid, seen) == guid \in seen

ReachedCapLate(filtered, cap) == Len(filtered) > cap
ReachedCap(filtered, cap) == Len(filtered) = cap

\* ------------------------------------------------------------ initial state
SyncIdle ==
    /\ existing_guids = {}
    /\ entries_before = <<>>
    /\ refresh_calls = <<>>
    /\ enrich_outcome = Absent
    /\ episodes = <<>>
    /\ all_seen_guids = {}
    /\ store_log = <<>>

RefreshIdle ==
    /\ backend = <<>>
    /\ ie_result = <<>>
    /\ result_type = Absent
    /\ has_playlist = FALSE
    /\ extract_calls = <<>>
    /\ rpc = "none"
    /\ channel_url = <<>>
    /\ refresh_url = <<>>
    /\ lookups = <<>>

\* the paths retrieve_resume looks at: tempname and tempname + '.' + ext
Tempname == "episode.partial"
Exts == {"mp4", "unknown_video"}
WithExt(ext) == Tempname \o "." \o ext
Paths == {Tempname} \cup {WithExt(ext) : ext \in Exts}

NoFiles == [p \in Paths |-> "absent"]

OrchIdle ==
    /\ _url = Absent
    /\ files = NoFiles
    /\ fetch_calls = <<>>
    /\ fetch_res = <<>>
    /\ files_fetched = NoFiles
    /\ fs_ops = <<>>
    /\ dl_result = <<>>

DownloadIdle ==
    /\ _prev_dl_bytes = 0
    /\ _reporthook = FALSE
    /\ events = <<>>
    /\ hook_calls = <<>>
    /\ dpc = "none"
    /\ OrchIdle
    /\ downloads = <<>>

\* YoutubeFeed.__init__ entered with any listing and any cap
InitFeed ==
    /\ \E listing \in Listings : entries = Objects(listing)
    /\ max_episodes \in 0..MaxEpisodes
    /\ consumed = 0
    /\ filtered_entries = <<>>
    /\ seen_guids = {}
    /\ pc = "process"
    /\ ie_entries = <<>>
    /\ SyncIdle
    /\ RefreshIdle
    /\ DownloadIdle

\* ---------------------------------------------------------- _process_entries
\* one iteration of the for loop, the cap test and the break included
ProcessEntry ==
    /\ pc = "process"
    /\ consumed < Len(entries)
    /\ LET e == entries[consumed + 1]
           guid == video_guid(e.id)
           keep == IsYoutubeVideo(e) /\ ~AlreadySeen(guid, seen_guids)
           filtered == IF keep THEN Append(filtered_entries, WithGuid(e, guid))
                       ELSE filtered_entries
       IN  /\ consumed' = consumed + 1
           /\ filtered_entries' = filtered
           /\ seen_guids' = IF keep THEN seen_guids \cup {guid} ELSE seen_guids
           /\ IF ReachedCap(filtered, max_episodes)
              THEN pc' = "ready" /\ ie_entries' = filtered
              ELSE pc' = "process" /\ ie_entries' = ie_entries
    /\ UNCHANGED <<entries, max_episodes, syncVars, refreshVars, downloadVars>>

\* the generator is exhausted: the loop ends and the list is returned
ProcessExhausted ==
    /\ pc = "process"
    /\ consumed = Len(entries)
    /\ pc' = "ready"
    /\ ie_entries' = filtered_entries
    /\ UNCHANGED <<entries, max_episodes, consumed, filtered_entries, seen_guids,
                   syncVars, refreshVars, downloadVars>>

\* ---------------------------------------------------------- get_new_episodes
Min(a, b) == IF a <= b THEN a ELSE b

\* [e for i, e in enumerate(entries) if not max_episodes or i < max_episodes]
TrimEntriesZeroIsCap(es, cap) == SubSeq(es, 1, Min(cap, Len(es)))
TrimEntries(es, cap) ==
    IF cap = 0 THEN es ELSE SubSeq(es, 1, Min(cap, Len(es)))

\* set(e['guid'] for e in entries)
AllSeenGuids(es) == {es[i].guid : i \in DOMAIN es}

\* [e for e in entries if e['guid'] not in existing_guids]
RECURSIVE NewEntriesAll(_, _)
NewEntriesAll(es, existing) == es
RECURSIVE NewEntries(_, _)
NewEntries(es, existing) ==
    IF es = <<>> THEN <<>>
    ELSE IF Head(es).guid \in existing
         THEN NewEntries(Tail(es), existing)
         ELSE <<Head(es)>> \o NewEntries(Tail(es), existing)

\* ydl.process_ie_result(ie_result, download=False), behind refresh_entries.
\* The backend is not part of this file; what it can do to the tree's entries:
\*   "error"    a DownloadError, caught by refresh_entries: the entries stay as
\*              they were handed over;
\*   "in_place" the metadata is filled into the same dicts, which keep 'guid';
\*   "fresh"    every entry is replaced by the dict of a new extraction, which
\*              has the id and the metadata and no 'guid' key.
\* Ids and order are kept in every case.  metas[i] is the metadata the
\* backend extracts for entry i.
EnrichOutcomes == {"error", "in_place", "fresh"}

\* dict.update: the keys of the new extraction replace the old ones
Updated(old, new) ==
    Meta(IF new.description # Absent THEN new.description ELSE old.description,
         IF new.duration.has THEN new.duration ELSE old.duration,
         IF new.filesize.has THEN new.filesize ELSE old.filesize,
         IF new.requested_formats.has THEN new.requested_formats
         ELSE old.requested_formats)

ProcessIeResultDropsOnError(es, outcome, metas) ==
    IF outcome = "error" THEN <<>>
    ELSE [i \in DOMAIN es |-> [es[i] EXCEPT !.enriched = TRUE, !.meta = metas[i]]]
ProcessIeResult(es, outcome, metas) ==
    [i \in DOMAIN es |->
        CASE outcome = "error" -> es[i]
          [] outcome = "in_place" ->
                [es[i] EXCEPT !.enriched = TRUE, !.meta = Updated(@, metas[i])]
          [] outcome = "fresh" ->
                [es[i] EXCEPT !.enriched = TRUE, !.meta = metas[i],
                              !.guid = Absent]]

\* gpodder.util.remove_html_tags on the descriptions of the model
remove_html_tags(text) == IF text = "<p>about</p>" THEN "about" ELSE text

\* remove_html_tags(en.get('description') or _('No description available'))
Description(meta) ==
    remove_html_tags(IF meta.description \in {Absent, ""}
                     THEN "No description available"
                     ELSE meta.description)

\* sum(int(f.get('filesize') or 0) for f in en.get('requested_formats', []))
RECURSIVE SumFormats(_)
SumFormats(fs) ==
    IF fs = <<>> THEN 0
    ELSE (IF Truthy(Head(fs)) THEN Head(fs).val ELSE 0) + SumFormats(Tail(fs))

\* the filesize of lines 197-201
FileSizeTopLevelOnly(meta) ==
    IF Truthy(meta.filesize) THEN meta.filesize.val ELSE 0
FileSize(meta) ==
    IF Truthy(meta.filesize) THEN meta.filesize.val
    ELSE SumFormats(meta.requested_formats.val)

\* int(en.get('duration') or 0)
TotalTime(meta) == IF Truthy(meta.duration) THEN meta.duration.val ELSE 0

\* the episode dict built from one entry: guid = video_guid(en['id'])
EpisodeOf(en) ==
    [guid |-> video_guid(en.id), enriched |-> en.enriched,
     description |-> Description(en.meta), file_size |-> FileSize(en.meta),
     total_time |-> TotalTime(en.meta)]

\* channel.episode_factory(ep); episode.save(); for every entry, in order
RECURSIVE StoreLogSavesTwice(_)
StoreLogSavesTwice(eps) ==
    IF eps = <<>> THEN <<>>
    ELSE <<<<"episode_factory", Head(eps).guid>>, <<"save", Head(eps).guid>>,
           <<"save", Head(eps).guid>>>> \o StoreLogSavesTwice(Tail(eps))
RECURSIVE StoreLog(_)
StoreLog(eps) ==
    IF eps = <<>> THEN <<>>
    ELSE <<<<"episode_factory", Head(eps).guid>>, <<"save", Head(eps).guid>>>>
         \o StoreLog(Tail(eps))

KnownGuidSets == SUBSET {video_guid(id) : id \in VideoIds}

\* e['guid'] raises KeyError for some entry of the list
GuidKeyErrorNever(es) == FALSE
GuidKeyError(es) == \E i \in DOMAIN es : es[i].guid = Absent

\* the whole of get_new_episodes; Extractable is the metadata the backend
\* may extract for a video
GetNewEpisodes(existing, outcome, Extractable) ==
    /\ pc \in {"ready", "synced", "failed"}
    /\ LET trimmed == TrimEntries(ie_entries, max_episodes)
           new_entries == NewEntries(trimmed, existing)
       IN  IF GuidKeyError(trimmed)
           THEN \* the KeyError leaves get_new_episodes before anything is changed
                /\ pc' = "failed"
                /\ UNCHANGED <<ie_entries, syncVars>>
           ELSE /\ all_seen_guids' = AllSeenGuids(trimmed)
                /\ refresh_calls' = <<new_entries>>
                /\ \E metas \in [DOMAIN new_entries -> Extractable] :
                       ie_entries' = ProcessIeResult(new_entries, outcome, metas)
                /\ episodes' = [i \in DOMAIN ie_entries' |-> EpisodeOf(ie_entries'[i])]
                /\ store_log' = StoreLog(episodes')
                /\ existing_guids' = existing
                /\ entries_before' = ie_entries
                /\ enrich_outcome' = outcome
                /\ pc' = "synced"
    /\ UNCHANGED <<entries, max_episodes, consumed, filtered_entries, seen_guids,
                   refreshVars, downloadVars>>

NextFeed == ProcessEntry \/ ProcessExhausted

\* A constructed feed: the state __init__ leaves for a listing of distinct
\* videos (every entry accepted; with a cap, no more entries than the cap).
VideoListings ==
    {l \in UNION {[1..n -> VideoIds] : n \in 0..MaxId} :
        \A i, j \in DOMAIN l : i # j => l[i] # l[j]}

InitSync ==
    /\ max_episodes \in 0..MaxEpisodes
    /\ \E l \in VideoListings :
        /\ max_episodes = 0 \/ Len(l) <= max_episodes
        /\ entries = Objects([i \in DOMAIN l |-> RawEntry("url", "Youtube", l[i])])
    /\ consumed = Len(entries)
    /\ filtered_entries =
         [i \in DOMAIN entries |-> WithGuid(entries[i], video_guid(entries[i].id))]
    /\ seen_guids = {video_guid(entries[i].id) : i \in DOMAIN entries}
    /\ pc = "ready"
    /\ ie_entries = filtered_entries
    /\ SyncIdle
    /\ RefreshIdle
    /\ DownloadIdle

\* what the backend extracts for a video
Duration == 213
FullMeta == Meta("<p>about</p>", Some(Duration), Some(700), NoFormats)

NextSync ==
    \E existing \in KnownGuidSets, outcome \in EnrichOutcomes :
        GetNewEpisodes(existing, outcome, {FullMeta})

SpecSync == InitSync /\ [][NextSync]_vars

\* The same on short listings, with the metadata varied: what a flat listing
\* says about a video, and what an extraction can report.
ListingMetas == {NoMeta, Meta("plain", Some(Duration), None, NoFormats)}

SizeProfiles ==
    {<<fs, rf>> : fs \in {None, Some(0), Some(700)},
                  rf \in {NoFormats, Formats(<<>>),
                          Formats(<<Some(100), Some(250)>>),
                          Formats(<<Some(100), None>>)}}

Extractables ==
    {Meta("plain", Some(Duration), p[1], p[2]) : p \in SizeProfiles}
    \cup {NoMeta, Meta("", Some(0), None, NoFormats), FullMeta}

FieldListings == {<<>>, <<"1">>, <<"1", "2">>, <<"2", "1">>}

InitFields ==
    /\ max_episodes \in 0..MaxEpisodes
    /\ \E l \in FieldListings, ms \in [1..2 -> ListingMetas] :
        /\ max_episodes = 0 \/ Len(l) <= max_episodes
        /\ entries = Objects([i \in DOMAIN l |->
                        [RawEntry("url", "Youtube", l[i]) EXCEPT !.meta = ms[i]]])
    /\ consumed = Len(entries)
    /\ filtered_entries =
         [i \in DOMAIN entries |-> WithGuid(entries[i], video_guid(entries[i].id))]
    /\ seen_guids = {video_guid(entries[i].id) : i \in DOMAIN entries}
    /\ pc = "ready"
    /\ ie_entries = filtered_entries
    /\ SyncIdle
    /\ RefreshIdle
    /\ DownloadIdle

\* one synchronisation per feed object: the host discards it afterwards
NextFields ==
    /\ pc = "ready"
    /\ \E existing \in KnownGuidSets, outcome \in EnrichOutcomes :
          GetNewEpisodes(existing, outcome, Extractables)

SpecFields == InitFields /\ [][NextFields]_vars

SpecFeed == InitFeed /\ [][NextFeed]_vars

\* ------------------------------------------------- gPodderYoutubeDL.refresh
\* A URL is its scheme and the rest.  youtube_dl.utils.sanitize_url prepends
\* 'http:' to a protocol-less URL ('//host/...') and repairs the typo
\* 'httpss://'; every other URL is returned as it is.
Url(scheme, rest) == [scheme |-> scheme, rest |-> rest]

sanitize_url(url) ==
    CASE url.scheme = "" -> Url("http", url.rest)
      [] url.scheme = "httpss" -> Url("https", url.rest)
      [] OTHER -> url

NoUrl == Url(Absent, Absent)

Tree(type, url, key, has_entries, listing) ==
    [_type |-> type, url |-> url, ie_key |-> key,
     has_entries |-> has_entries, entries |-> listing]

\* A channel URL of the host: what stands before the '?', the name of the
\* query parameter, and everything after the '='.
FeedUrl(head, param, value) == [head |-> head, param |-> param, value |-> value]

FeedsHead == "https://www.youtube.com/feeds/videos.xml"

\* re.match of 'https://www.youtube.com/feeds/videos.xml' on the head: the
\* dots of the pattern are not escaped, and each matches any one character
MatchesFeedsHead(head) ==
    head \in {FeedsHead, "https://www.youtube.com/feeds/videos-xml"}

\* CHANNEL_RE.match(url) / PLAYLIST_RE.match(url): m.group(1), or no match;
\* (.+) wants at least one character
MatchGroup(u, param) ==
    IF MatchesFeedsHead(u.head) /\ u.param = param /\ u.value # ""
    THEN u.value
    ELSE Absent

ChannelUrls ==
    {FeedUrl(h, p, v) :
        h \in {FeedsHead, "https://www.youtube.com/feeds/videos-xml",
                "http://www.youtube.com/feeds/videos.xml",
                "https://example.org/podcast.xml"},
        p \in {"channel_id", "playlist_id", "user"},
        v \in {"", "X", "X&hl=en"}}

\* the url handed to refresh by fetch_channel
ChannelUrl == Url("https", "www.youtube.com/channel/X")

RedirectUrls == {Url("", "www.youtube.com/c/x/videos"),
                 Url("https", "www.youtube.com/playlist?list=UUx")}

\* a playlist listing: a video, a linked channel, the same video again, and
\* another video
SampleListing ==
    <<RawEntry("url", "Youtube", "1"), RawEntry("url", "YoutubeChannel", "1"),
      RawEntry("url", "Youtube", "1"), RawEntry("url", "Youtube", "2")>>

\* the trees the backend may answer an extraction with
TreeSet ==
    {Tree("url", u, k, FALSE, <<>>) : u \in RedirectUrls, k \in {Absent, "YoutubeTab"}}
    \cup {Tree("url_transparent", Url("", "www.youtube.com/c/x/videos"), "YoutubeTab",
               FALSE, <<>>),
          Tree("playlist", NoUrl, Absent, TRUE, SampleListing),
          Tree("playlist", NoUrl, Absent, TRUE, <<>>),
          Tree("playlist", NoUrl, Absent, FALSE, <<>>),
          Tree("multi_video", NoUrl, Absent, TRUE, SampleListing),
          Tree("video", NoUrl, Absent, FALSE, <<>>),
          Tree(Absent, NoUrl, Absent, FALSE, <<>>),
          Tree("compat_list", NoUrl, Absent, TRUE, SampleListing)}

\* the backend's answers to the successive extraction requests; the last one
\* is not a 'url' node (a chain of redirects that never ends is not modelled)
Chains ==
    {c \in UNION {[1..n -> TreeSet] : n \in 1..MaxChain} : c[Len(c)]._type # "url"}

\* extract_type: the result types it raises on
UnsupportedOnlyBare(rt) == rt \in {"video", "url_transparent"}
UnsupportedButVideo(rt) ==
    rt \notin {"url", "playlist", "multi_video", "video"}
Unsupported(rt) == rt \notin {"url", "playlist", "multi_video"}

\* extract_type: has_playlist
HasPlaylist(rt) == rt \in {"playlist", "multi_video"}

\* one extract_info request
ExtractCallNoHint(url, key) == [url |-> url, ie_key |-> Absent]
ExtractCall(url, key) == [url |-> url, ie_key |-> key]

InitRefresh ==
    /\ backend \in Chains
    /\ max_episodes \in 0..MaxEpisodes
    /\ rpc = "start"
    /\ channel_url = FeedUrl(FeedsHead, "channel_id", "X")
    /\ refresh_url = ChannelUrl
    /\ lookups = <<>>
    /\ ie_result = <<>>
    /\ result_type = Absent
    /\ has_playlist = FALSE
    /\ extract_calls = <<>>
    /\ entries = <<>>
    /\ consumed = 0
    /\ filtered_entries = <<>>
    /\ seen_guids = {}
    /\ pc = "none"
    /\ ie_entries = <<>>
    /\ SyncIdle
    /\ DownloadIdle

\* result_type, has_playlist = extract_type(tree), or the exception it raises
ExtractType(tree) ==
    IF Unsupported(GetType(tree))
    THEN /\ rpc' = "raised"
         /\ UNCHANGED <<result_type, has_playlist>>
    ELSE /\ rpc' = "loop"
         /\ result_type' = GetType(tree)
         /\ has_playlist' = HasPlaylist(GetType(tree))

\* the initial extraction and its extract_type
RefreshStart ==
    /\ rpc = "start"
    /\ extract_calls' = <<ExtractCall(refresh_url, Absent)>>
    /\ ie_result' = backend[1]
    /\ ExtractType(backend[1])
    /\ UNCHANGED <<backend, channel_url, refresh_url, lookups,
                   feedVars, syncVars, downloadVars>>

\* one iteration of the while loop
RefreshLoop ==
    /\ rpc = "loop"
    /\ ~has_playlist
    /\ LET sanitized ==
               IF result_type \in {"url", "url_transparent"}
               THEN [ie_result EXCEPT !.url = sanitize_url(@)]
               ELSE ie_result
           extracted ==
               IF result_type = "url"
               THEN backend[Len(extract_calls) + 1]
               ELSE sanitized
       IN  /\ extract_calls' =
                 IF result_type = "url"
                 THEN Append(extract_calls, ExtractCall(sanitized.url, sanitized.ie_key))
                 ELSE extract_calls
           /\ ie_result' = extracted
           /\ ExtractType(extracted)
    /\ UNCHANGED <<backend, channel_url, refresh_url, lookups,
                   feedVars, syncVars, downloadVars>>

\* the loop is left with a playlist: the cover and the description are
\* looked up, and YoutubeFeed(...) is constructed, its __init__ handing
\* ie_result.get('entries', []) to _process_entries
RefreshReturn ==
    /\ rpc = "loop"
    /\ has_playlist
    /\ rpc' = "construct"
    /\ lookups' = <<<<"get_cover", channel_url>>, <<"get_channel_desc", channel_url>>>>
    /\ entries' = Objects(IF ie_result.has_entries THEN ie_result.entries ELSE <<>>)
    /\ pc' = "process"
    /\ UNCHANGED <<max_episodes, consumed, filtered_entries, seen_guids, ie_entries,
                   backend, ie_result, result_type, has_playlist, extract_calls,
                   channel_url, refresh_url, syncVars, downloadVars>>

NextRefresh ==
    \/ RefreshStart
    \/ RefreshLoop
    \/ RefreshReturn
    \/ ProcessEntry
    \/ ProcessExhausted

SpecRefresh == InitRefresh /\ [][NextRefresh]_vars

\* ------------------------------------------- gPodderYoutubeDL.fetch_channel
\* model.gPodderFetcher asks for a custom feed for a channel
FetchChannel(curl, cap) ==
    /\ rpc = "fetch"
    /\ channel_url' = curl
    /\ LET channel == MatchGroup(curl, "channel_id")
           playlist == MatchGroup(curl, "playlist_id")
       IN  IF channel # Absent
           THEN /\ refresh_url' = Url("https", "www.youtube.com/channel/" \o channel)
                /\ max_episodes' = cap
                /\ rpc' = "start"
           ELSE IF playlist # Absent
           THEN /\ refresh_url' = Url("https", "www.youtube.com/playlist?list=" \o playlist)
                /\ max_episodes' = cap
                /\ rpc' = "start"
           ELSE /\ rpc' = "declined"
                /\ UNCHANGED <<refresh_url, max_episodes>>
    /\ UNCHANGED <<backend, ie_result, result_type, has_playlist, extract_calls,
                   lookups, entries, consumed, filtered_entries, seen_guids, pc,
                   ie_entries, syncVars, downloadVars>>

\* the backend answers at once or after one redirect
ShortChains == {c \in Chains : Len(c) <= 2}

InitChannel ==
    /\ backend \in ShortChains
    /\ rpc = "fetch"
    /\ max_episodes = 0
    /\ channel_url = <<>>
    /\ refresh_url = <<>>
    /\ lookups = <<>>
    /\ ie_result = <<>>
    /\ result_type = Absent
    /\ has_playlist = FALSE
    /\ extract_calls = <<>>
    /\ entries = <<>>
    /\ consumed = 0
    /\ filtered_entries = <<>>
    /\ seen_guids = {}
    /\ pc = "none"
    /\ ie_entries = <<>>
    /\ SyncIdle
    /\ DownloadIdle

NextChannel ==
    \/ \E curl \in ChannelUrls, cap \in 0..MaxEpisodes : FetchChannel(curl, cap)
    \/ RefreshStart
    \/ RefreshLoop
    \/ RefreshReturn
    \/ ProcessEntry
    \/ ProcessExhausted

SpecChannel == InitChannel /\ [][NextChannel]_vars

\* ------------------------------------------- YoutubeCustomDownload._my_hook
ExactTotal == MaxBytes + 1      \* a fragment's total_bytes
EstimatedTotal == MaxBytes + 2  \* a fragment's total_bytes_estimate

Event(status, dl, total, estimate) ==
    [status |-> status, downloaded_bytes |-> dl,
     total_bytes |-> total, total_bytes_estimate |-> estimate]

\* the progress dicts the backend may deliver
EventSet ==
    {Event("downloading", dl, t[1], t[2]) :
        dl \in 0..MaxBytes,
        t \in {<<None, None>>, <<Some(ExactTotal), None>>,
               <<None, Some(EstimatedTotal)>>,
               <<Some(ExactTotal), Some(EstimatedTotal)>>,
               <<Some(0), Some(EstimatedTotal)>>}}
    \cup {Event("finished", dl, Some(dl), None) : dl \in 0..MaxBytes}
    \cup {Event("error", 0, None, None), Event("processing", 0, None, None)}

\* d.get('total_bytes') or d.get('total_bytes_estimate') or 0
TotalBytesNoEstimate(d) == IF Truthy(d.total_bytes) THEN d.total_bytes.val ELSE 0
TotalBytes(d) ==
    IF Truthy(d.total_bytes) THEN d.total_bytes.val
    ELSE IF Truthy(d.total_bytes_estimate) THEN d.total_bytes_estimate.val
    ELSE 0

\* one invocation of the progress callback
ReportCallSwapped(done, total) == <<total, 1, done>>
ReportCall(done, total) == <<done, 1, total>>

\* _my_hook(d): self._prev_dl_bytes afterwards, prev being its value before
HookCounter(prev, d) ==
    IF d.status = "finished" THEN prev + d.downloaded_bytes ELSE prev

\* _my_hook(d): the invocations of self._reporthook so far, calls being those
\* before; 'error' and unknown statuses are only logged
HookCalls(calls, prev, reporthook, d) ==
    CASE d.status = "downloading" /\ reporthook ->
            Append(calls, ReportCall(prev + d.downloaded_bytes, prev + TotalBytes(d)))
      [] d.status = "finished" /\ reporthook ->
            Append(calls, ReportCall(HookCounter(prev, d), HookCounter(prev, d)))
      [] OTHER -> calls

\* fetch_video is running for a YoutubeCustomDownload on which retrieve_resume
\* has stored its reporthook argument (a callback or None)
InitHook ==
    /\ _prev_dl_bytes = 0
    /\ _reporthook \in BOOLEAN
    /\ events = <<>>
    /\ hook_calls = <<>>
    /\ dpc = "fetching"
    /\ OrchIdle
    /\ downloads = <<>>
    /\ entries = <<>>
    /\ max_episodes = 0
    /\ consumed = 0
    /\ filtered_entries = <<>>
    /\ seen_guids = {}
    /\ pc = "none"
    /\ ie_entries = <<>>
    /\ SyncIdle
    /\ RefreshIdle

\* the backend calls the progress hook with d
MyHook(d) ==
    /\ dpc = "fetching"
    /\ Len(events) < MaxEvents
    /\ events' = Append(events, d)
    /\ _prev_dl_bytes' = HookCounter(_prev_dl_bytes, d)
    /\ hook_calls' = HookCalls(hook_calls, _prev_dl_bytes, _reporthook, d)
    /\ UNCHANGED <<_reporthook, dpc, orchVars, downloads, feedVars, syncVars,
                   refreshVars>>

NextHook == \E d \in EventSet : MyHook(d)

SpecHook == InitHook /\ [][NextHook]_vars

\* ------------------------- custom_downloader, retrieve_resume and fetch_video
\* episode URLs; the two first match https://www.youtube.com/watch\?v=.+
WatchUrl == "https://www.youtube.com/watch?v=a"
WatchLink == "https://www.youtube.com/watch?v=b"
MediaUrl == "https://example.org/a.mp3"
FinalUrl == "https://media.example.org/videoplayback"

IsWatchUrl(u) == u \in {WatchUrl, WatchLink}

Episodes ==
    {[url |-> WatchUrl, link |-> MediaUrl],
     [url |-> MediaUrl, link |-> WatchLink],
     [url |-> MediaUrl, link |-> MediaUrl]}

\* the options fetch_video hands to the backend (the format options aside)
Retries == 3
FetchCallNoRetries(url, tempname) ==
    [url |-> url, outtmpl |-> tempname, nopart |-> TRUE, retries |-> 0]
FetchCall(url, tempname) ==
    [url |-> url, outtmpl |-> tempname, nopart |-> TRUE, retries |-> Retries]

\* what extract_info(url, download=True) returns: 'ext' and 'url' may be missing
FetchResults == [ext : Exts \cup {Absent}, url : {FinalUrl, Absent}]

\* what fetch_video and the host may leave behind at the paths looked at
Merged(ext) == "merged." \o ext
FileSystems ==
    {[p \in Paths |-> IF p = Tempname THEN t ELSE IF p \in S THEN Merged(CHOOSE e \in Exts : WithExt(e) = p) ELSE "absent"] :
        t \in {"absent", "empty", "stream"}, S \in SUBSET {WithExt(e) : e \in Exts}}

\* gpodder.util.mimetype_from_extension: '' for an extension it does not know
mimetype_from_extension(ext) == IF ext = "mp4" THEN "video/mp4" ELSE ""

Headers(res) ==
    IF res.ext # Absent /\ mimetype_from_extension(res.ext) # ""
    THEN [content_type |-> mimetype_from_extension(res.ext)]
    ELSE [content_type |-> Absent]

\* os.stat(tempname).st_size is 0
TempIsEmptyAlways(fs) == TRUE
TempIsEmpty(fs) == fs[Tempname] = "empty"

\* os.path.isfile(tempname + dot_ext)
IsFile(fs, p) == fs[p] # "absent"

\* os.remove(tempname); os.rename(tempname_with_ext, tempname)
Moved(fs, ext) ==
    [p \in Paths |-> IF p = Tempname THEN fs[WithExt(ext)]
                     ELSE IF p = WithExt(ext) THEN "absent"
                     ELSE fs[p]]

\* registry.custom_downloader.resolve asks for a downloader for an episode
CustomDownloader(ep) ==
    /\ dpc = "none"
    /\ IF IsWatchUrl(ep.url)
       THEN _url' = ep.url /\ dpc' = "idle"
       ELSE IF IsWatchUrl(ep.link)
       THEN _url' = ep.link /\ dpc' = "idle"
       ELSE _url' = Absent /\ dpc' = "declined"
    /\ _reporthook' = FALSE
    /\ _prev_dl_bytes' = 0
    /\ UNCHANGED <<events, hook_calls, files, fetch_calls, fetch_res,
                   files_fetched, fs_ops, dl_result,
                   downloads, feedVars, syncVars, refreshVars>>

\* download.DownloadTask calls retrieve_resume(tempname, reporthook); the
\* call stays inside fetch_video until the backend returns or raises
RetrieveResume(reporthook) ==
    /\ dpc \in {"idle", "returned", "fetch_failed", "stat_failed"}
    /\ _reporthook' = reporthook
    /\ fetch_calls' = <<FetchCall(_url, Tempname)>>
    /\ fetch_res' = <<>>
    /\ files_fetched' = files
    /\ fs_ops' = <<>>
    /\ dl_result' = <<>>
    /\ dpc' = "fetching"
    /\ UNCHANGED <<_prev_dl_bytes, events, hook_calls, _url, files,
                   downloads, feedVars, syncVars, refreshVars>>

\* fetch_video returns res, leaving the files as fs; the rest of
\* retrieve_resume runs
FetchReturn(res, fs) ==
    /\ dpc = "fetching"
    /\ fetch_res' = res
    /\ files_fetched' = fs
    /\ IF res.ext # Absent /\ ~IsFile(fs, Tempname)
       THEN \* os.stat(tempname) raises FileNotFoundError
            /\ dpc' = "stat_failed"
            /\ files' = fs
            /\ UNCHANGED <<fs_ops, dl_result>>
       ELSE /\ dpc' = "returned"
            /\ IF res.ext # Absent /\ TempIsEmpty(fs) /\ IsFile(fs, WithExt(res.ext))
               THEN /\ files' = Moved(fs, res.ext)
                    /\ fs_ops' = <<<<"remove", Tempname>>,
                                   <<"rename", WithExt(res.ext), Tempname>>>>
               ELSE /\ files' = fs
                    /\ UNCHANGED fs_ops
            /\ dl_result' = [headers |-> Headers(res),
                             url |-> IF res.url # Absent THEN res.url ELSE _url]
    /\ UNCHANGED <<_prev_dl_bytes, _reporthook, events, hook_calls, _url,
                   fetch_calls, downloads, feedVars, syncVars, refreshVars>>

\* the backend gives up (its retries are spent): extract_info raises
FetchFail(fs) ==
    /\ dpc = "fetching"
    /\ dpc' = "fetch_failed"
    /\ files' = fs
    /\ files_fetched' = fs
    /\ UNCHANGED <<_prev_dl_bytes, _reporthook, events, hook_calls, _url,
                   fetch_calls, fetch_res, fs_ops, dl_result,
                   downloads, feedVars, syncVars, refreshVars>>

\* the progress dicts of a download in two fragments
FragmentEvents ==
    {Event("downloading", MaxBytes, Some(ExactTotal), None),
     Event("finished", MaxBytes, Some(MaxBytes), None),
     Event("error", 0, None, None)}

InitDownload ==
    /\ DownloadIdle
    /\ entries = <<>>
    /\ max_episodes = 0
    /\ consumed = 0
    /\ filtered_entries = <<>>
    /\ seen_guids = {}
    /\ pc = "none"
    /\ ie_entries = <<>>
    /\ SyncIdle
    /\ RefreshIdle

NextDownload ==
    \/ \E ep \in Episodes : CustomDownloader(ep)
    \/ \E reporthook \in BOOLEAN : RetrieveResume(reporthook)
    \/ \E d \in FragmentEvents : MyHook(d)
    \/ \E res \in FetchResults, fs \in FileSystems : FetchReturn(res, fs)
    \/ \E fs \in FileSystems : FetchFail(fs)

SpecDownload == InitDownload /\ [][NextDownload]_vars

\* ------------------------------------- two downloads running side by side
\* Two episodes are downloaded at once, each with the YoutubeCustomDownload
\* that custom_downloader made for it; the backend delivers the progress
\* dicts of the two in any order.  The files are left out here.
Instances == {1, 2}

Unmade ==
    [dpc |-> "none", _url |-> Absent, _prev_dl_bytes |-> 0,
     _reporthook |-> FALSE, events |-> <<>>, hook_calls |-> <<>>]

\* the object whose _prev_dl_bytes instance i reads and writes: self
CounterOwnerShared(i) == 1
CounterOwner(i) == i

PairCustomDownloader(i, ep) ==
    /\ downloads[i].dpc = "none"
    /\ IF IsWatchUrl(ep.url) \/ IsWatchUrl(ep.link)
       THEN downloads' =
               [downloads EXCEPT
                   ![i].dpc = "idle",
                   ![i]._url = IF IsWatchUrl(ep.url) THEN ep.url ELSE ep.link,
                   ![i]._reporthook = FALSE,
                   ![CounterOwner(i)]._prev_dl_bytes = 0]
       ELSE downloads' = [downloads EXCEPT ![i].dpc = "declined"]
    /\ UNCHANGED <<_prev_dl_bytes, _reporthook, events, hook_calls, dpc, orchVars,
                   feedVars, syncVars, refreshVars>>

PairRetrieveResume(i, reporthook) ==
    /\ downloads[i].dpc \in {"idle", "ended"}
    /\ downloads' = [downloads EXCEPT ![i]._reporthook = reporthook,
                                      ![i].dpc = "fetching"]
    /\ UNCHANGED <<_prev_dl_bytes, _reporthook, events, hook_calls, dpc, orchVars,
                   feedVars, syncVars, refreshVars>>

\* the backend calls instance i's _my_hook with d; the event is logged with
\* whether the instance had a callback then
PairHook(i, d) ==
    /\ downloads[i].dpc = "fetching"
    /\ Len(downloads[i].events) < MaxPairEvents
    /\ LET prev == downloads[CounterOwner(i)]._prev_dl_bytes IN
       downloads' =
           [downloads EXCEPT
               ![i].events = Append(@, [d |-> d, hooked |-> downloads[i]._reporthook]),
               ![i].hook_calls = HookCalls(@, prev, downloads[i]._reporthook, d),
               ![CounterOwner(i)]._prev_dl_bytes = HookCounter(prev, d)]
    /\ UNCHANGED <<_prev_dl_bytes, _reporthook, events, hook_calls, dpc, orchVars,
                   feedVars, syncVars, refreshVars>>

\* fetch_video returns or raises, and retrieve_resume with it
PairFetchEnds(i) ==
    /\ downloads[i].dpc = "fetching"
    /\ downloads' = [downloads EXCEPT ![i].dpc = "ended"]
    /\ UNCHANGED <<_prev_dl_bytes, _reporthook, events, hook_calls, dpc, orchVars,
                   feedVars, syncVars, refreshVars>>

PairEvents ==
    {Event("downloading", MaxBytes, Some(ExactTotal), None),
     Event("finished", MaxBytes, Some(MaxBytes), None)}

InitPair ==
    /\ downloads = [i \in Instances |-> Unmade]
    /\ _prev_dl_bytes = 0
    /\ _reporthook = FALSE
    /\ events = <<>>
    /\ hook_calls = <<>>
    /\ dpc = "none"
    /\ OrchIdle
    /\ entries = <<>>
    /\ max_episodes = 0
    /\ consumed = 0
    /\ filtered_entries = <<>>
    /\ seen_guids = {}
    /\ pc = "none"
    /\ ie_entries = <<>>
    /\ SyncIdle
    /\ RefreshIdle

NextPair ==
    \E i \in Instances :
        \/ \E ep \in Episodes : PairCustomDownloader(i, ep)
        \/ \E reporthook \in BOOLEAN : PairRetrieveResume(i, reporthook)
        \/ \E d \in PairEvents : PairHook(i, d)
        \/ PairFetchEnds(i)

SpecPair == InitPair /\ [][NextPair]_vars

\* ==================================================================== claims
\* what the claims say, stated on the raw listing and not through the model's
\* helpers

\* the entry is a candidate: result type 'url' and the YouTube extractor
Candidate(e) == e._type = "url" /\ e.ie_key = "Youtube"

\* positions, among the first n of the listing, of the candidates that are the
\* first occurrence of their video id
FirstOccurrences(n) ==
    {i \in 1..n :
        /\ Candidate(entries[i])
        /\ \A j \in 1..(i - 1) :
              ~(Candidate(entries[j]) /\ entries[j].id = entries[i].id)}

\* the listing positions of a result list, in result order
PositionsOf(result) == [k \in DOMAIN result |-> result[k].obj]

\* the members of a set of positions in increasing order
RECURSIVE Ascending(_)
Ascending(S) ==
    IF S = {} THEN <<>>
    ELSE LET m == CHOOSE x \in S : \A y \in S : x <= y
         IN  <<m>> \o Ascending(S \ {m})

\* C1: the filtered list never holds two entries with the same GUID; it is, at
\* every point of the enumeration, the first occurrences of the candidate
\* videos pulled so far, in listing order, each tagged 'yt:video:' + id.
C1_NoDuplicateGuid ==
    /\ \A i, j \in DOMAIN filtered_entries :
          i # j => filtered_entries[i].guid # filtered_entries[j].guid
    /\ PositionsOf(filtered_entries) = Ascending(FirstOccurrences(consumed))
    /\ \A k \in DOMAIN filtered_entries :
          filtered_entries[k].guid = "yt:video:" \o filtered_entries[k].id
    /\ pc = "ready" => ie_entries = filtered_entries

\* a later occurrence of an already accepted video was pulled and dropped
C1_Witness ==
    /\ pc = "ready"
    /\ Len(filtered_entries) >= 2
    /\ \E i \in 1..consumed :
          Candidate(entries[i]) /\ i \notin FirstOccurrences(consumed)

\* the position of the N-th accepted entry, 0 when fewer than N are accepted
NthAccepted(N) ==
    IF Cardinality(FirstOccurrences(Len(entries))) < N THEN 0
    ELSE CHOOSE p \in 1..Len(entries) :
            /\ Cardinality(FirstOccurrences(p)) = N
            /\ Cardinality(FirstOccurrences(p - 1)) < N

\* C2: with max_episodes = N > 0 the list never exceeds N entries, and once
\* the N-th entry is accepted the enumeration is over with exactly the
\* elements up to that entry pulled from the producer.
C2_StopsAtCap ==
    max_episodes > 0 =>
        /\ Len(filtered_entries) <= max_episodes
        /\ NthAccepted(max_episodes) > 0 => consumed <= NthAccepted(max_episodes)
        /\ Len(filtered_entries) = max_episodes =>
              /\ pc = "ready"
              /\ consumed = NthAccepted(max_episodes)
              /\ Len(ie_entries) = max_episodes

\* the cap was reached with elements of the listing left unpulled
C2_Witness ==
    /\ max_episodes > 0
    /\ pc = "ready"
    /\ Len(ie_entries) = max_episodes
    /\ consumed < Len(entries)
    /\ \E i \in 1..consumed : ~Candidate(entries[i])

\* C3: with max_episodes = 0 the enumeration ends only when the whole listing
\* has been pulled, and returns every first occurrence of a candidate video,
\* wherever the rejected entries are.
C3_UnlimitedConsumesAll ==
    (max_episodes = 0 /\ pc = "ready") =>
        /\ consumed = Len(entries)
        /\ PositionsOf(ie_entries) = Ascending(FirstOccurrences(Len(entries)))

\* C4: every emitted entry has type 'url' and the YouTube extractor key, and
\* the enumeration never ends on a discarded non-video entry while elements
\* remain: every later first occurrence within the cap is emitted.
C4_DiscardContinues ==
    /\ \A k \in DOMAIN filtered_entries :
          filtered_entries[k]._type = "url" /\ filtered_entries[k].ie_key = "Youtube"
    /\ pc = "ready" =>
          /\ (0 < consumed /\ consumed < Len(entries)) => Candidate(entries[consumed])
          /\ \A i \in FirstOccurrences(Len(entries)) :
                (max_episodes = 0 \/ Cardinality(FirstOccurrences(i)) <= max_episodes)
                    => \E k \in DOMAIN ie_entries : ie_entries[k].obj = i

\* the first max_episodes entries of what the feed held when the call began
\* (all of them when max_episodes = 0)
TrimmedBefore ==
    IF max_episodes = 0 \/ Len(entries_before) <= max_episodes
    THEN entries_before
    ELSE [i \in 1..max_episodes |-> entries_before[i]]

IsNew(e) == e.guid \notin existing_guids

\* C5: one get_new_episodes call hands exactly one tree to refresh_entries, and
\* its entries are the trimmed entries whose GUID is not in known_guids, in
\* their original order; no known GUID is among them.
C5_EnrichesOnlyNew ==
    pc = "synced" =>
        /\ Len(refresh_calls) = 1
        /\ refresh_calls[1] = SelectSeq(TrimmedBefore, IsNew)
        /\ \A k \in DOMAIN refresh_calls[1] :
              refresh_calls[1][k].guid \notin existing_guids

\* known GUIDs were in the feed, in front of at least two new entries
C5_Witness ==
    /\ pc = "synced"
    /\ \E i \in DOMAIN entries_before : entries_before[i].guid \in existing_guids
    /\ Len(refresh_calls) = 1
    /\ Len(refresh_calls[1]) >= 2
    /\ entries_before[1].guid \in existing_guids

\* C6: the returned all_guids is the set of GUIDs of the first max_episodes
\* entries the feed held (all of them when max_episodes = 0), whatever
\* known_guids is; with max_episodes > 0 it has at most max_episodes members.
C6_AllGuidsOfTrimmed ==
    pc = "synced" =>
        /\ all_seen_guids = {TrimmedBefore[i].guid : i \in DOMAIN TrimmedBefore}
        /\ all_seen_guids =
              {"yt:video:" \o entries_before[i].id :
                  i \in {j \in DOMAIN entries_before :
                            max_episodes = 0 \/ j <= max_episodes}}
        /\ max_episodes > 0 => Cardinality(all_seen_guids) <= max_episodes

\* an unlimited feed with more entries than any cap, some GUIDs already known
C6_Witness ==
    /\ pc = "synced"
    /\ max_episodes = 0
    /\ Cardinality(all_seen_guids) > MaxEpisodes
    /\ all_seen_guids \cap existing_guids # {}
    /\ all_seen_guids \ existing_guids # {}

\* the result type of a tree the backend answered: '_type', 'video' if missing
ResultTypeOf(tree) == IF tree._type = Absent THEN "video" ELSE tree._type

\* the positions of the backend answers obtained so far
Obtained == 1..Len(extract_calls)

\* refresh has returned a feed
FeedReturned == rpc = "construct" /\ pc = "ready"

\* C7: on the answers url_transparent, url_transparent, playlist, refresh does
\* not raise and ends by returning a feed built from the playlist tree.
C7_TransparentChainReturns ==
    (/\ Len(backend) = 3
     /\ backend[1]._type = "url_transparent"
     /\ backend[2]._type = "url_transparent"
     /\ backend[3]._type = "playlist")
        => /\ rpc # "raised"
           /\ FeedReturned => ie_result = backend[3]

RecognizedTypes == {"video", "url", "url_transparent", "playlist", "multi_video"}

\* C8: once a tree with a result type outside the recognized set has been
\* obtained, initially or through a redirect, refresh has raised: no feed is
\* under construction, nothing was extracted after that tree and it was not
\* taken for a playlist.
C8_UnrecognizedTypeAborts ==
    \A i \in Obtained :
        ResultTypeOf(backend[i]) \notin RecognizedTypes =>
            /\ rpc = "raised"
            /\ i = Len(extract_calls)
            /\ ~has_playlist
            /\ pc = "none" /\ entries = <<>> /\ ie_entries = <<>>

\* an unrecognized tree that carries entries was reached through a redirect
C8_Witness ==
    /\ rpc = "raised"
    /\ Len(extract_calls) >= 2
    /\ backend[Len(extract_calls)]._type = "compat_list"
    /\ backend[Len(extract_calls)].has_entries

\* C9 as claimed: when a bare video node is reached, refresh does not raise,
\* and the feed it returns has an empty entry list.
C9_BareVideoReturnsEmptyFeed ==
    \A i \in Obtained :
        ResultTypeOf(backend[i]) = "video" =>
            /\ rpc # "raised"
            /\ FeedReturned => ie_entries = <<>>

\* C9 as the code has it: when a bare video node is reached ('video', or no
\* result type), refresh has raised; no feed is under construction and nothing
\* further is extracted, so it neither returns nor loops.
C9_BareVideoRaises ==
    \A i \in Obtained :
        ResultTypeOf(backend[i]) = "video" =>
            /\ rpc = "raised"
            /\ i = Len(extract_calls)
            /\ pc = "none" /\ entries = <<>> /\ ie_entries = <<>>

\* a tree without a result type was reached through a redirect
C9_Witness ==
    /\ rpc = "raised"
    /\ Len(extract_calls) = 2
    /\ backend[1]._type = "url"
    /\ backend[2]._type = Absent

\* the sum of downloaded_bytes of the 'finished' events among the first n
RECURSIVE FinishedBytes(_)
FinishedBytes(n) ==
    IF n = 0 THEN 0
    ELSE FinishedBytes(n - 1)
         + (IF events[n].status = "finished" THEN events[n].downloaded_bytes ELSE 0)

\* T of a 'downloading' event: total_bytes, else total_bytes_estimate, else 0
ClaimedTotal(d) ==
    IF d.total_bytes.has /\ d.total_bytes.val > 0 THEN d.total_bytes.val
    ELSE IF d.total_bytes_estimate.has THEN d.total_bytes_estimate.val
    ELSE 0

\* the callback invocations the first n events call for
RECURSIVE ExpectedCalls(_)
ExpectedCalls(n) ==
    IF n = 0 THEN <<>>
    ELSE ExpectedCalls(n - 1) \o
         (CASE events[n].status = "downloading" ->
                  <<<<FinishedBytes(n - 1) + events[n].downloaded_bytes, 1,
                      FinishedBytes(n - 1) + ClaimedTotal(events[n])>>>>
            [] events[n].status = "finished" ->
                  <<<<FinishedBytes(n), 1, FinishedBytes(n)>>>>
            [] OTHER -> <<>>)

\* C10: with a callback set, the callback invocations are exactly
\* (P + downloaded_bytes, 1, P + T) for each 'downloading' event and
\* (P', 1, P') for each 'finished' event, none for any other event, and the
\* counter is the sum of the downloaded_bytes of the 'finished' events.
C10_ProgressCalls ==
    /\ _prev_dl_bytes = FinishedBytes(Len(events))
    /\ _reporthook => hook_calls = ExpectedCalls(Len(events))

\* downloading(1 of 2), finished(1), downloading(1 of 2) gave (1,1,2), (1,1,1),
\* (2,1,3); the spec's example in units of 500 bytes has the same shape
C10_Witness ==
    /\ _reporthook
    /\ Len(events) = 3
    /\ events[1].status = "downloading" /\ events[2].status = "finished"
    /\ events[3].status = "downloading"
    /\ hook_calls = <<<<1, 1, 2>>, <<1, 1, 1>>, <<2, 1, 3>>>>

\* the last 'downloading' event of the fragment in progress before event n
\* (0 if the fragment has reported none yet)
RECURSIVE LastDownloading(_)
LastDownloading(n) ==
    IF n <= 1 THEN 0
    ELSE CASE events[n - 1].status = "downloading" -> n - 1
           [] events[n - 1].status = "finished" -> 0
           [] OTHER -> LastDownloading(n - 1)

\* within a fragment downloaded_bytes never decreases, and the fragment's
\* 'finished' event carries at least its last 'downloading' count
FragmentsWellFormed ==
    \A n \in DOMAIN events :
        (events[n].status \in {"downloading", "finished"} /\ LastDownloading(n) > 0)
            => events[LastDownloading(n)].downloaded_bytes <= events[n].downloaded_bytes

\* C11: over well-formed fragments the bytes_done argument of the successive
\* callback invocations never decreases, fragment boundaries included.
C11_BytesDoneMonotonic ==
    (_reporthook /\ FragmentsWellFormed) =>
        \A i, j \in DOMAIN hook_calls : i < j => hook_calls[i][1] <= hook_calls[j][1]

\* a fragment finished with 1 byte, and the next one reported 0 and then 1
C11_Witness ==
    /\ _reporthook
    /\ FragmentsWellFormed
    /\ Len(events) = 3
    /\ events[1].status = "finished" /\ events[1].downloaded_bytes = 1
    /\ events[2].status = "downloading" /\ events[2].downloaded_bytes = 0
    /\ events[3].status = "downloading" /\ events[3].downloaded_bytes = 1
    /\ <<hook_calls[1][1], hook_calls[2][1], hook_calls[3][1]>> = <<1, 1, 2>>

\* the repair case: the backend reported ext, left the destination empty
\* and wrote the media to destination + '.' + ext
RepairCase ==
    /\ fetch_res.ext # Absent
    /\ files_fetched[Tempname] = "empty"
    /\ files_fetched[WithExt(fetch_res.ext)] # "absent"

\* C12: after a retrieve_resume that returned, in the repair case the
\* destination holds what the suffixed file held and the suffixed path is
\* gone (the other paths are untouched); in every other case no file is
\* removed or renamed and the files are as the backend left them.
C12_OutputPathRepair ==
    dpc = "returned" =>
        IF RepairCase
        THEN /\ files[Tempname] = files_fetched[WithExt(fetch_res.ext)]
             /\ files[WithExt(fetch_res.ext)] = "absent"
             /\ \A p \in Paths \ {Tempname, WithExt(fetch_res.ext)} :
                    files[p] = files_fetched[p]
        ELSE fs_ops = <<>> /\ files = files_fetched

C12_Witness ==
    /\ dpc = "returned"
    /\ RepairCase
    /\ fetch_res.ext = "mp4"
    /\ files[Tempname] = "merged.mp4"
    /\ files[WithExt("mp4")] = "absent"
    /\ Len(fs_ops) = 2

\* C14: a retrieve_resume call issues one fetch, for the instance's URL and
\* the destination, with 3 retries; when the fetch has failed there is
\* still that one fetch, nothing was returned, nothing was removed or
\* renamed, and the files are as the backend left them.
C14_FetchOnceFailurePropagates ==
    /\ dpc \in {"fetching", "returned", "fetch_failed", "stat_failed"} =>
          /\ Len(fetch_calls) = 1
          /\ fetch_calls[1].url = _url
          /\ fetch_calls[1].outtmpl = Tempname
          /\ fetch_calls[1].retries = 3
    /\ dpc = "fetch_failed" =>
          /\ dl_result = <<>>
          /\ fs_ops = <<>>
          /\ files = files_fetched

C14_Witness ==
    /\ dpc = "fetch_failed"
    /\ Len(fetch_calls) = 1
    /\ files[Tempname] = "empty"
    /\ files[WithExt("mp4")] = "merged.mp4"
    /\ Len(events) > 0

\* the entries a get_new_episodes call found new, as they were before enrichment
NewBefore == SelectSeq(TrimmedBefore, IsNew)

FallbackDescription == "No description available"

\* the description an episode gets from metadata m
ExpectedDescription(m) ==
    CASE m.description = Absent -> FallbackDescription
      [] m.description = "" -> FallbackDescription
      [] m.description = "<p>about</p>" -> "about"
      [] OTHER -> m.description

\* the store calls that concern the episode with this guid
StoreCalls(kind, guid) ==
    {k \in DOMAIN store_log : store_log[k] = <<kind, guid>>}

\* C13: when enrichment fails, get_new_episodes still returns; it creates and
\* saves one episode for every new entry, built from what the listing said
\* about the video, with duration 0, file size 0 and the fallback description
\* where the listing said nothing; all_guids is that of the trimmed entries,
\* as for every other outcome of the enrichment.
C13_EnrichmentFailureSwallowed ==
    /\ (pc = "synced" /\ enrich_outcome = "error") =>
          /\ Len(episodes) = Len(NewBefore)
          /\ \A i \in DOMAIN episodes :
                LET m == NewBefore[i].meta IN
                /\ episodes[i].guid = NewBefore[i].guid
                /\ ~episodes[i].enriched
                /\ episodes[i].description = ExpectedDescription(m)
                /\ episodes[i].total_time = (IF m.duration.has THEN m.duration.val ELSE 0)
                /\ (~m.filesize.has /\ ~m.requested_formats.has) =>
                       episodes[i].file_size = 0
                /\ Cardinality(StoreCalls("episode_factory", episodes[i].guid)) = 1
                /\ Cardinality(StoreCalls("save", episodes[i].guid)) = 1
    /\ pc = "synced" =>
          all_seen_guids = {TrimmedBefore[i].guid : i \in DOMAIN TrimmedBefore}

\* enrichment failed for two new entries: the listing said nothing about the
\* first and gave the duration and description of the second
C13_Witness ==
    /\ pc = "synced"
    /\ enrich_outcome = "error"
    /\ Len(episodes) = 2
    /\ episodes[1].description = FallbackDescription
    /\ episodes[1].total_time = 0
    /\ episodes[1].file_size = 0
    /\ episodes[2].total_time = Duration
    /\ episodes[2].description = "plain"

\* the sum of the filesize values of a list of formats, absent counting as 0
RECURSIVE FormatsTotal(_, _)
FormatsTotal(fs, n) ==
    IF n = 0 THEN 0
    ELSE FormatsTotal(fs, n - 1) + (IF fs[n].has THEN fs[n].val ELSE 0)

\* C16: an episode's file_size is the entry's top-level filesize when that is
\* present and not 0; otherwise the sum of the filesize values of its
\* requested_formats, an absent filesize counting as 0 (100 and 250 give
\* 350); and 0 when there is neither.
C16_FileSizeDerivation ==
    pc = "synced" =>
        \A i \in DOMAIN episodes :
            LET m == ie_entries[i].meta
                fs == m.requested_formats.val
            IN  /\ episodes[i].file_size =
                      IF m.filesize.has /\ m.filesize.val # 0 THEN m.filesize.val
                      ELSE IF m.requested_formats.has THEN FormatsTotal(fs, Len(fs))
                      ELSE 0
                /\ (~m.filesize.has /\ fs = <<Some(100), Some(250)>>) =>
                       episodes[i].file_size = 350

\* no top-level filesize, two requested formats of 100 and 250
C16_Witness ==
    /\ pc = "synced"
    /\ Len(episodes) >= 1
    /\ ~ie_entries[1].meta.filesize.has
    /\ ie_entries[1].meta.requested_formats = Formats(<<Some(100), Some(250)>>)
    /\ episodes[1].file_size = 350

\* C18: the returned episodes are one per new entry, in the order of those
\* entries in the feed; each was created by the episode factory once and
\* saved once; every returned GUID is outside known_guids and inside the
\* returned all_guids, and no two returned episodes have the same GUID.
C18_OneEpisodePerNewEntry ==
    pc = "synced" =>
        /\ Len(episodes) = Len(NewBefore)
        /\ Len(store_log) = 2 * Len(episodes)
        /\ \A i \in DOMAIN episodes :
              /\ episodes[i].guid = NewBefore[i].guid
              /\ episodes[i].guid \notin existing_guids
              /\ episodes[i].guid \in all_seen_guids
              /\ StoreCalls("episode_factory", episodes[i].guid) = {2 * i - 1}
              /\ StoreCalls("save", episodes[i].guid) = {2 * i}
        /\ \A i, j \in DOMAIN episodes :
              i # j => episodes[i].guid # episodes[j].guid

\* a known video between two new ones
C18_Witness ==
    /\ pc = "synced"
    /\ Len(entries_before) = 3
    /\ entries_before[2].guid \in existing_guids
    /\ Len(episodes) = 2
    /\ episodes[1].guid = entries_before[1].guid
    /\ episodes[2].guid = entries_before[3].guid
    /\ Len(store_log) = 4

\* C19 as stated: a get_new_episodes call on a feed that has been
\* synchronised returns, with an all_guids inside the earlier all_guids
\* minus the earlier known_guids.
C19_SecondCallReturnsSubset ==
    [][pc = "synced" =>
          /\ pc' = "synced"
          /\ all_seen_guids' \subseteq all_seen_guids \ existing_guids]_vars

\* C19: after a call the feed's stored entries are the trimmed entries whose
\* GUID is not in known_guids, in order (the known ones are gone); the next
\* call on the same feed either returns an all_guids inside the earlier
\* all_guids minus the earlier known_guids, or, when the backend has replaced
\* the stored entries by newly extracted dicts (no 'guid' key), raises
\* KeyError and changes nothing.
C19_EntriesReplacedByNew ==
    /\ [](pc = "synced" =>
            /\ Len(ie_entries) = Len(NewBefore)
            /\ \A i \in DOMAIN ie_entries :
                  /\ ie_entries[i].id = NewBefore[i].id
                  /\ ie_entries[i].obj = NewBefore[i].obj
                  /\ NewBefore[i].guid \notin existing_guids)
    /\ [][pc = "synced" =>
            \/ /\ pc' = "synced"
               /\ all_seen_guids' \subseteq all_seen_guids \ existing_guids
            \/ /\ pc' = "failed"
               /\ enrich_outcome = "fresh"
               /\ ie_entries # <<>>
               /\ UNCHANGED <<ie_entries, syncVars>>]_vars

\* a second call has returned: it started from a feed that had lost a known
\* entry, and reported fewer GUIDs than the listing has
C19_Witness ==
    /\ pc = "synced"
    /\ Len(filtered_entries) = 3
    /\ Len(entries_before) = 2
    /\ Cardinality(all_seen_guids) = 2
    /\ filtered_entries[1].guid \notin all_seen_guids

\* channel.url has the shape https://www.youtube.com/feeds/videos.xml?<param>=X
FeedShape(param) ==
    /\ channel_url.head = FeedsHead
    /\ channel_url.param = param
    /\ channel_url.value # ""

\* C15: fetch_channel resolves a feed URL with channel_id=X as the native
\* channel URL for X and one with playlist_id=X as the native playlist URL
\* for X; for every other channel URL it declines, without any extraction
\* request and without any cover or description lookup.
C15_OnlyTwoShapes ==
    rpc # "fetch" =>
        /\ FeedShape("channel_id") =>
              /\ rpc # "declined"
              /\ refresh_url = Url("https", "www.youtube.com/channel/" \o channel_url.value)
        /\ FeedShape("playlist_id") =>
              /\ rpc # "declined"
              /\ refresh_url =
                    Url("https", "www.youtube.com/playlist?list=" \o channel_url.value)
        /\ (~FeedShape("channel_id") /\ ~FeedShape("playlist_id")) =>
              /\ rpc = "declined"
              /\ extract_calls = <<>>
              /\ lookups = <<>>

\* the number of 'url' nodes in front of the first other answer of the backend
RECURSIVE UrlNodes(_)
UrlNodes(n) ==
    IF n <= Len(backend) /\ ResultTypeOf(backend[n]) = "url"
    THEN 1 + UrlNodes(n + 1)
    ELSE 0

\* the backend answers with k 'url' nodes and then a playlist or multi_video
UrlChainToPlaylist ==
    /\ backend # <<>>
    /\ UrlNodes(1) < Len(backend)
    /\ ResultTypeOf(backend[UrlNodes(1) + 1]) \in {"playlist", "multi_video"}

\* what sanitize_url makes of the url of a node
SanitizedUrlOf(tree) ==
    IF tree.url.scheme = "" THEN [scheme |-> "http", rest |-> tree.url.rest]
    ELSE IF tree.url.scheme = "httpss" THEN [scheme |-> "https", rest |-> tree.url.rest]
    ELSE tree.url

\* C17: when the backend answers with k 'url' nodes and then a playlist or
\* multi_video tree, refresh never raises and makes at most k requests after
\* the first, request j + 1 being for the sanitized url of node j with that
\* node's ie_key; the feed is constructed after exactly k of them, around the
\* tree that came after the k nodes.  Whatever the backend answers, the loop
\* is left only with a playlist or multi_video tree or by raising on a type
\* other than 'url', 'playlist' and 'multi_video'.
C17_UrlChainResolved ==
    /\ (rpc \notin {"none", "fetch", "declined"} /\ UrlChainToPlaylist) =>
          LET k == UrlNodes(1) IN
          /\ rpc # "raised"
          /\ Len(extract_calls) <= k + 1
          /\ \A j \in 1..(Len(extract_calls) - 1) :
                extract_calls[j + 1] =
                    [url |-> SanitizedUrlOf(backend[j]), ie_key |-> backend[j].ie_key]
          /\ rpc = "construct" =>
                /\ Len(extract_calls) = k + 1
                /\ ie_result = backend[k + 1]
                /\ Len(entries) =
                      (IF ie_result.has_entries THEN Len(ie_result.entries) ELSE 0)
    /\ rpc = "construct" => ResultTypeOf(ie_result) \in {"playlist", "multi_video"}
    /\ rpc = "raised" =>
          ResultTypeOf(ie_result) \notin {"url", "playlist", "multi_video"}

\* two redirects, the first protocol-less with an extractor hint, then a
\* playlist: the feed is returned after three requests
C17_Witness ==
    /\ FeedReturned
    /\ UrlChainToPlaylist
    /\ UrlNodes(1) = 2
    /\ Len(extract_calls) = 3
    /\ backend[1].url.scheme = ""
    /\ extract_calls[2] = [url |-> Url("http", backend[1].url.rest), ie_key |-> "YoutubeTab"]
    /\ ie_result = backend[3]

\* the downloaded_bytes of the 'finished' events among the first n events
\* that instance i received
RECURSIVE OwnFinished(_, _)
OwnFinished(i, n) ==
    IF n = 0 THEN 0
    ELSE OwnFinished(i, n - 1)
         + (IF downloads[i].events[n].d.status = "finished"
            THEN downloads[i].events[n].d.downloaded_bytes ELSE 0)

\* the callback invocations instance i makes for its first n events when it
\* receives them alone
RECURSIVE OwnCalls(_, _)
OwnCalls(i, n) ==
    IF n = 0 THEN <<>>
    ELSE LET e == downloads[i].events[n]
             before == OwnFinished(i, n - 1)
         IN  IF ~e.hooked THEN OwnCalls(i, n - 1)
             ELSE IF e.d.status = "downloading"
             THEN Append(OwnCalls(i, n - 1),
                         <<before + e.d.downloaded_bytes, 1, before + ClaimedTotal(e.d)>>)
             ELSE Append(OwnCalls(i, n - 1),
                         <<OwnFinished(i, n), 1, OwnFinished(i, n)>>)

\* C20: each instance has its own counter, 0 when custom_downloader made it
\* and changed by nothing but that instance's 'finished' events: however the
\* events of two downloads interleave and however often retrieve_resume is
\* called, an instance's counter is the sum of the downloaded_bytes of the
\* 'finished' events it received, and what it has passed to its callback is
\* what it passes when it receives its own events alone.
C20_CounterPerInstance ==
    \A i \in Instances :
        /\ downloads[i]._prev_dl_bytes = OwnFinished(i, Len(downloads[i].events))
        /\ downloads[i].hook_calls = OwnCalls(i, Len(downloads[i].events))
        /\ (downloads[i].dpc = "idle" /\ downloads[i].events = <<>>) =>
               downloads[i]._prev_dl_bytes = 0

\* both instances have finished a fragment and report the next one, the
\* first in its second retrieve_resume call
C20_Witness ==
    /\ \A i \in Instances :
          /\ Len(downloads[i].events) = 2
          /\ downloads[i].events[1].d.status = "finished"
          /\ downloads[i].events[2].d.status = "downloading"
          /\ downloads[i].events[2].hooked
          /\ downloads[i]._prev_dl_bytes = MaxBytes
    /\ ~downloads[1].events[1].hooked
    /\ downloads[1].hook_calls = <<<<2 * MaxBytes, 1, MaxBytes + ExactTotal>>>>
    /\ Len(downloads[2].hook_calls) = 2
====
